---- MODULE Spec2Model ----
(***************************************************************************)
(* Model of bot.py: the Mattermost poller thread (message_poller), the     *)
(* reply worker thread (message_processor), the queue between them and the *)
(* module-level dictionaries they share.                                    *)
(*                                                                         *)
(* Time is the wall clock in milliseconds.  Texts are sequences of         *)
(* one-character strings, so that the mention test is a real substring     *)
(* search.  Python dictionaries are functions whose DOMAIN is the set of   *)
(* keys present.                                                           *)
(***************************************************************************)
EXTENDS Integers, Sequences, FiniteSets, TLC

\* ---------------------------------------------------------------- bounds
\* Number of posts users write after boot.
MaxPosts == 2
\* Number of message_queue.put calls over a run.
MaxEnq == 2
\* Number of clock readings that return a later time than the reading before.
MaxAdvances == 1

\* ------------------------------------------------------- program constants
\* ENABLE_CONTEXT_TRACKING = True
ENABLE_CONTEXT_TRACKING == TRUE

\* boot_time = int(datetime.now().timestamp() * 1000): the clock value at
\* which the module was loaded.
boot_time == 1000

\* CONTEXT_EXPIRATION_DURATION = timedelta(minutes=4), in milliseconds.
CONTEXT_EXPIRATION_DURATION == 240000

\* ------------------------------------------------------------ environment
\* The bot's account as driver.users.get_user("me") reports it.
bot_user_id == "bot"
bot_username == <<"b">>

\* Human accounts: user id -> username (driver.users.get_user(id)["username"]).
UserIds == {"u1", "u2"}
Username(uid) == IF uid = "u1" THEN "alice" ELSE IF uid = "u2" THEN "bob" ELSE "botname"

\* Channels of the team the bot is a member of: one open channel, one DM.
ChannelIds == {"c1", "d1"}
\* driver.channels.get_channels_for_user(...) lists them in this order.
channels == <<"c1", "d1">>
ChannelType(c) == IF c = "d1" THEN "D" ELSE "O"

\* Message texts users write: without and with the bot's mention token.
Plain == <<"h", "i">>
Mention == <<"h", "@", "b">>

\* What users post after boot: <<channel id, author, text>>.
PostKinds ==
    { <<"c1", "u1", Mention>>, <<"c1", "u2", Plain>>, <<"d1", "u2", Plain>> }

\* Context tokens are sequences of numbers; "" (here <<>>) is what
\* get_ollama_response returns when there is none.
NoContext == <<>>

\* Reply texts of get_ollama_response: the engine's answer (here one that
\* holds the bot's mention token), "Error: Ollama returned status code ...",
\* "Error: Unable to get a response from Ollama."
ReplyOk == <<"@", "b">>
ReplyStatusError == <<"E", "s">>
ReplyException == <<"E", "x">>
TextRank(t) ==
    IF t = ReplyOk THEN 1 ELSE IF t = ReplyStatusError THEN 2 ELSE IF t = ReplyException THEN 3 ELSE 0

\* ---------------------------------------------------------------- helpers
Reverse(s) == [i \in 1..Len(s) |-> s[Len(s) + 1 - i]]

\* d[k] = v on a Python dict.
DictSet(d, k, v) == [x \in DOMAIN d \cup {k} |-> IF x = k THEN v ELSE d[x]]

EmptyDict == [x \in {} |-> 0]

\* Number of occurrences of x in sequence s.
Count(s, x) == Cardinality({i \in 1..Len(s) : s[i] = x})

\* needle in hay, for Python sequences (str.__contains__).
Contains(hay, needle) ==
    \E i \in 0..(Len(hay) - Len(needle)) :
        \A j \in 1..Len(needle) : hay[i + j] = needle[j]

VARIABLES
    now,                      \* wall clock, ms: the latest reading taken
    server,                   \* the set of posts on the chat server
    last_processed_timestamp, \* channel id -> create_at of the last answered post
    last_poll_time,           \* channel id -> time of the last poll
    message_queue,            \* Queue(): sequence of queued tuples
    user_context,             \* username -> (context, last_interaction_time)
    \* message_poller locals
    ppc,                      \* "sleep", "channel", "post", "getuser"
    ci,                       \* position of the for loop over channels
    todo,                     \* posts of the current channel still to visit
    \* message_processor locals
    wpc,                      \* "get", "infer", "mark"
    ev,                       \* the dequeued tuple
    current_time,             \* datetime.now() taken after the dequeue
    context,                  \* context resolved for this event
    bot_response,             \* reply text get_ollama_response returned
    \* history (not program state)
    enqLog,                   \* ids of the posts put on the queue, in put order
    replies,                  \* ids of the posts a reply was posted for, in order
    dropped,                  \* ids of the posts whose processing raised
    lastDecision,             \* outcome of the poller's latest filter decision
    advances                  \* number of clock readings later than the one before

pollerVars == <<ppc, ci, todo>>
workerVars == <<wpc, ev, current_time, context, bot_response>>
sharedVars == <<last_processed_timestamp, last_poll_time, message_queue, user_context>>
histVars == <<enqLog, replies, dropped, lastDecision, advances>>
vars == <<now, server, sharedVars, pollerVars, workerVars, histVars>>

NoEvent == [id |-> 0, channel_id |-> "", message_text |-> <<>>, sender_username |-> "", message_time |-> 0]
\* A post as the server stores it.  Posts of users are numbered 1, 2, ... in
\* the order they are written.  The bot's own posts all carry id 0: replies
\* that agree in channel, text and time are one element of the set, and the
\* poller treats them alike.
Post(i, c, u, t, at, upd) ==
    [id |-> i, channel_id |-> c, user_id |-> u, message |-> t, create_at |-> at, update_at |-> upd]

\* No post.
NoPost == Post(0, "", "", <<>>, 0, 0)

\* lastDecision before the poller has looked at a post: the post looked at, the
\* verdict on it, and the channel's last_processed_timestamp entry read for the
\* decision of line 201 (-1 when the channel has none).
NoDecision == [post |-> NoPost, verdict |-> "none", seen |-> -1]

\* The channel history that exists when the bot boots: a post that addresses
\* the bot, written before boot_time and edited at boot_time.
History == { Post(1, "c1", "u1", Mention, boot_time - 1, boot_time) }

UserPosts(srv) == {q \in srv : q.user_id # bot_user_id}

\* The user post with id i.
PostById(i) == CHOOSE q \in UserPosts(server) : q.id = i

Init ==
    /\ now = boot_time
    /\ server = History
    /\ last_processed_timestamp = EmptyDict
    /\ last_poll_time = EmptyDict
    /\ message_queue = <<>>
    /\ user_context = EmptyDict
    /\ ppc = "sleep"
    /\ ci = 1
    /\ todo = <<>>
    /\ wpc = "get"
    /\ ev = NoEvent
    /\ current_time = 0
    /\ context = NoContext
    /\ bot_response = <<>>
    /\ enqLog = <<>>
    /\ replies = <<>>
    /\ dropped = {}
    /\ lastDecision = NoDecision
    /\ advances = 0

\* ------------------------------------------------------------ environment
UserPostCount == Cardinality({q \in UserPosts(server) : q.create_at >= boot_time})

\* What a reading of the wall clock can return when the latest reading was t:
\* the same millisecond, the time a whole expiration window later, or a
\* millisecond after that.
ClockReadings(t) ==
    IF advances < MaxAdvances
    THEN {t, t + CONTEXT_EXPIRATION_DURATION, t + CONTEXT_EXPIRATION_DURATION + 1}
    ELSE {t}

\* The clock is read and returns t.
ReadClock(t) ==
    /\ t \in ClockReadings(now)
    /\ now' = t
    /\ advances' = IF t = now THEN advances ELSE advances + 1

\* A user writes a post; the server stamps it with the current time.
UserPost ==
    /\ UserPostCount < MaxPosts
    /\ \E k \in PostKinds, t \in ClockReadings(now) :
          /\ ReadClock(t)
          /\ server' = server \cup {Post(Cardinality(UserPosts(server)) + 1, k[1], k[2], k[3], t, t)}
    /\ UNCHANGED <<sharedVars, pollerVars, workerVars, enqLog, replies, dropped, lastDecision>>

\* ----------------------------------------------------------- message_poller
\* bot_is_mentioned(message, bot_username): f"@{bot_username}" in message
bot_is_mentioned(message, name) == Contains(message, <<"@">> \o name)

\* Mutant: the author's id compared with the bot's username.
IsOwnPost_name(post) == post.user_id = Username(bot_user_id)

\* if post["user_id"] != bot_user_id: ... (the negation: the post is skipped)
IsOwnPost(post) == post.user_id = bot_user_id

\* Mutant: the post's milliseconds compared with the boot time in seconds.
IsOldMessage_seconds(message_time) == message_time < boot_time \div 1000

\* if message_time < boot_time: continue
IsOldMessage(message_time) == message_time < boot_time

\* Mutant: > in place of >=.
AlreadyProcessed_strict(lpt, c, message_time) == c \in DOMAIN lpt /\ lpt[c] > message_time

\* if channel["id"] in last_processed_timestamp and
\*    last_processed_timestamp[channel["id"]] >= message_time: continue
\* The key is never deleted, so the outcome is that of one read of the entry.
AlreadyProcessed(lpt, c, message_time) == c \in DOMAIN lpt /\ lpt[c] >= message_time

\* Mutant: == "D" in place of != "D".
NotAddressed_dm(c, message_text) == ChannelType(c) = "D" /\ ~bot_is_mentioned(message_text, bot_username)

\* if channel["type"] != "D" and not bot_is_mentioned(message_text, bot_username): continue
NotAddressed(c, message_text) == ChannelType(c) # "D" /\ ~bot_is_mentioned(message_text, bot_username)

\* The tuple message_queue.put receives (the id is carried for the history only).
QueueEvent(post) ==
    [id |-> post.id, channel_id |-> post.channel_id, message_text |-> post.message,
     sender_username |-> Username(post.user_id), message_time |-> post.create_at]

\* Posts by age: create_at, then id, then (for the bot's posts) the text.
Older(a, b) ==
    \/ a.create_at < b.create_at
    \/ a.create_at = b.create_at /\ a.id < b.id
    \/ a.create_at = b.create_at /\ a.id = b.id /\ TextRank(a.message) < TextRank(b.message)

\* The elements of S listed oldest first.
RECURSIVE OldestFirst(_)
OldestFirst(S) ==
    IF S = {} THEN <<>>
    ELSE LET a == CHOOSE x \in S : \A y \in S \ {x} : Older(x, y)
         IN  <<a>> \o OldestFirst(S \ {a})

\* driver.posts.get_posts_for_channel(channel, params={"since": since_time}):
\* posts["order"] lists the posts of the channel modified at or after
\* since_time (a new post is modified when it is created).  The gateway
\* chooses the order: newest first, as the server documents, or oldest first.
FetchOrders(srv, c, since_time) ==
    LET found == {q \in srv : q.channel_id = c /\ q.update_at >= since_time}
    IN  { OldestFirst(found), Reverse(OldestFirst(found)) }

\* time.sleep(1) returns; channels = driver.channels.get_channels_for_user(...)
PollStart ==
    /\ ppc = "sleep"
    /\ ci' = 1
    /\ ppc' = "channel"
    /\ lastDecision' = NoDecision
    /\ UNCHANGED <<now, server, sharedVars, todo, workerVars, enqLog, replies, dropped, advances>>

\* last_poll_time with the entry of channel c initialised (lines 178-179).
PollTimeInit(lpt, c) == IF c \in DOMAIN lpt THEN lpt ELSE DictSet(lpt, c, boot_time)

\* for channel in channels: initialise last_poll_time, fetch the posts since then.
PollFetch ==
    /\ ppc = "channel"
    /\ LET c == channels[ci]
           lpt == PollTimeInit(last_poll_time, c)
       IN  /\ last_poll_time' = lpt
           /\ \E order \in FetchOrders(server, c, lpt[c]) :
                 todo' = Reverse(order)          \* for post_id in reversed(posts["order"])
    /\ ppc' = "post"
    /\ UNCHANGED <<now, server, last_processed_timestamp, message_queue, user_context,
                   ci, workerVars, histVars>>

\* An exception inside the for loops leaves both loops: it is caught by the
\* except of the while loop body, which prints it; then time.sleep(1).
PollAbort ==
    /\ todo' = <<>>
    /\ ci' = 1
    /\ ppc' = "sleep"

\* get_posts_for_channel raises.
PollFetchFail ==
    /\ ppc = "channel"
    /\ last_poll_time' = PollTimeInit(last_poll_time, channels[ci])
    /\ PollAbort
    /\ UNCHANGED <<now, server, last_processed_timestamp, message_queue, user_context,
                   workerVars, histVars>>

\* One iteration of the for loop over the posts, up to the decision of line 201:
\* the author, boot and already-processed filters.
PollFilter ==
    /\ ppc = "post"
    /\ todo # <<>>
    /\ LET post == Head(todo)
           c == channels[ci]
           seen == IF c \in DOMAIN last_processed_timestamp THEN last_processed_timestamp[c] ELSE -1
           skip(v) == /\ todo' = Tail(todo)
                      /\ ppc' = "post"
                      /\ lastDecision' = [post |-> post, verdict |-> v, seen |-> seen]
       IN  IF IsOwnPost(post) THEN skip("bot")
           ELSE IF IsOldMessage(post.create_at) THEN skip("old")
           ELSE IF AlreadyProcessed(last_processed_timestamp, c, post.create_at) THEN skip("dup")
           ELSE /\ todo' = todo
                /\ ppc' = "getuser"
                /\ lastDecision' = [post |-> post, verdict |-> "pass", seen |-> seen]
    /\ UNCHANGED <<now, server, sharedVars, ci, workerVars, enqLog, replies, dropped, advances>>

\* Mutant: message_queue.join() before the put, so that the poller waits
\* until the worker has finished every event put so far.
PollGetUser_join ==
    /\ ppc = "getuser"
    /\ LET post == Head(todo)
           c == channels[ci]
       IN  IF NotAddressed(c, post.message)
           THEN /\ lastDecision' = [lastDecision EXCEPT !.verdict = "nomention"]
                /\ UNCHANGED <<message_queue, enqLog>>
           ELSE /\ Len(enqLog) < MaxEnq
                /\ wpc = "get" /\ message_queue = <<>>
                /\ message_queue' = Append(message_queue, QueueEvent(post))
                /\ enqLog' = Append(enqLog, post.id)
                /\ lastDecision' = [lastDecision EXCEPT !.verdict = "enqueued"]
    /\ todo' = Tail(todo)
    /\ ppc' = "post"
    /\ UNCHANGED <<now, server, last_processed_timestamp, last_poll_time, user_context,
                   ci, workerVars, replies, dropped, advances>>

\* sender_user = driver.users.get_user(sender_user_id) returns; the mention
\* filter; message_queue.put.
PollGetUser ==
    /\ ppc = "getuser"
    /\ LET post == Head(todo)
           c == channels[ci]
       IN  IF NotAddressed(c, post.message)
           THEN /\ lastDecision' = [lastDecision EXCEPT !.verdict = "nomention"]
                /\ UNCHANGED <<message_queue, enqLog>>
           ELSE /\ Len(enqLog) < MaxEnq
                /\ message_queue' = Append(message_queue, QueueEvent(post))
                /\ enqLog' = Append(enqLog, post.id)
                /\ lastDecision' = [lastDecision EXCEPT !.verdict = "enqueued"]
    /\ todo' = Tail(todo)
    /\ ppc' = "post"
    /\ UNCHANGED <<now, server, last_processed_timestamp, last_poll_time, user_context,
                   ci, workerVars, replies, dropped, advances>>

\* driver.users.get_user raises.
PollGetUserFail ==
    /\ ppc = "getuser"
    /\ lastDecision' = [lastDecision EXCEPT !.verdict = "error"]
    /\ PollAbort
    /\ UNCHANGED <<now, server, sharedVars, workerVars, enqLog, replies, dropped, advances>>

\* The for loop over the posts is exhausted:
\* last_poll_time[channel["id"]] = int(datetime.now().timestamp() * 1000);
\* then the next channel, or time.sleep(1) after the last one.
PollChannelDone ==
    /\ ppc = "post"
    /\ todo = <<>>
    /\ \E t \in ClockReadings(now) :
          /\ ReadClock(t)
          /\ last_poll_time' = DictSet(last_poll_time, channels[ci], t)
    /\ IF ci < Len(channels)
       THEN ci' = ci + 1 /\ ppc' = "channel"
       ELSE ci' = 1 /\ ppc' = "sleep"
    /\ lastDecision' = NoDecision
    /\ UNCHANGED <<server, last_processed_timestamp, message_queue, user_context,
                   todo, workerVars, enqLog, replies, dropped>>

\* -------------------------------------------------------- message_processor
\* Mutant: >= in place of >.
ContextExpired_inclusive(t, last_interaction_time) ==
    ENABLE_CONTEXT_TRACKING /\ t - last_interaction_time >= CONTEXT_EXPIRATION_DURATION

\* ENABLE_CONTEXT_TRACKING and current_time - last_interaction_time > CONTEXT_EXPIRATION_DURATION
ContextExpired(t, last_interaction_time) ==
    ENABLE_CONTEXT_TRACKING /\ t - last_interaction_time > CONTEXT_EXPIRATION_DURATION

\* Mutant: an expired entry is reset in the store when it is resolved.
ResolveStore_reset(uc, user_id, t) ==
    IF user_id \in DOMAIN uc /\ ~ContextExpired(t, uc[user_id].last_interaction_time)
    THEN uc
    ELSE DictSet(uc, user_id, [context |-> NoContext, last_interaction_time |-> t])

\* if user_id not in user_context: user_context[user_id] = ("", current_time)
ResolveStore(uc, user_id, t) ==
    IF user_id \in DOMAIN uc
    THEN uc
    ELSE DictSet(uc, user_id, [context |-> NoContext, last_interaction_time |-> t])

\* context, last_interaction_time = user_context[user_id]; context = "" if expired
ResolveContext(uc, user_id, t) ==
    IF ContextExpired(t, uc[user_id].last_interaction_time)
    THEN NoContext
    ELSE uc[user_id].context

\* The request get_ollama_response builds: data["context"] is set only with
\* tracking enabled and a non-empty context (the worker passes the context
\* under the same condition).
RequestData(prompt, ctx) ==
    IF ENABLE_CONTEXT_TRACKING /\ ctx # NoContext
    THEN [prompt |-> prompt, context |-> ctx]
    ELSE [prompt |-> prompt]

\* The context the engine answers a request with: the context it was sent,
\* extended by this turn.
NextContext(data) ==
    (IF "context" \in DOMAIN data THEN data.context ELSE NoContext) \o <<1>>

\* Mutant: the error returns hand back the context that was sent.
OllamaResults_keep(data) ==
    LET sent == IF "context" \in DOMAIN data THEN data.context ELSE NoContext
    IN  { <<ReplyOk, NextContext(data)>>,
          <<ReplyStatusError, sent>>, <<ReplyException, sent>> }

\* What get_ollama_response(prompt, context) can return: <<reply, context>>
\* for status 200, for another status, and for an exception of requests.post.
OllamaResults(data) ==
    { <<ReplyOk, NextContext(data)>>,
      <<ReplyStatusError, NoContext>>, <<ReplyException, NoContext>> }

\* Mutant: last_processed_timestamp is set when the event is dequeued.
WorkerGet_mark ==
    /\ wpc = "get"
    /\ message_queue # <<>>
    /\ \E t \in ClockReadings(now) :
          LET e == Head(message_queue)
              user_id == e.sender_username
              uc == ResolveStore(user_context, user_id, t)
          IN  /\ ReadClock(t)
              /\ ev' = e
              /\ current_time' = t
              /\ user_context' = uc
              /\ context' = ResolveContext(uc, user_id, t)
              /\ last_processed_timestamp' = DictSet(last_processed_timestamp, e.channel_id, e.message_time)
    /\ message_queue' = Tail(message_queue)
    /\ wpc' = "infer"
    /\ UNCHANGED <<server, last_poll_time, pollerVars, bot_response, enqLog, replies, dropped, lastDecision>>

\* message_queue.get() returns; current_time is taken; the user's context is
\* created if absent and resolved.
WorkerGet ==
    /\ wpc = "get"
    /\ message_queue # <<>>
    /\ \E t \in ClockReadings(now) :
          LET e == Head(message_queue)
              user_id == e.sender_username
              uc == ResolveStore(user_context, user_id, t)
          IN  /\ ReadClock(t)
              /\ ev' = e
              /\ current_time' = t
              /\ user_context' = uc
              /\ context' = ResolveContext(uc, user_id, t)
    /\ message_queue' = Tail(message_queue)
    /\ wpc' = "infer"
    /\ UNCHANGED <<server, last_processed_timestamp, last_poll_time, pollerVars, bot_response,
                   enqLog, replies, dropped, lastDecision>>

\* if ENABLE_CONTEXT_TRACKING: user_context[user_id] = (new_context, current_time)
UpdateStore(uc, user_id, new_context, t) ==
    IF ENABLE_CONTEXT_TRACKING
    THEN DictSet(uc, user_id, [context |-> new_context, last_interaction_time |-> t])
    ELSE uc

\* get_ollama_response returns, the user's context is updated and
\* post_message_to_mattermost succeeds: the reply is a post of the bot.
WorkerPost ==
    /\ wpc = "infer"
    /\ \E r \in OllamaResults(RequestData(ev.message_text, context)), t \in ClockReadings(now) :
          /\ ReadClock(t)
          /\ user_context' = UpdateStore(user_context, ev.sender_username, r[2], current_time)
          /\ bot_response' = r[1]
          /\ server' = server \cup {Post(0, ev.channel_id, bot_user_id, r[1], t, t)}
    /\ replies' = Append(replies, ev.id)
    /\ wpc' = "mark"
    /\ UNCHANGED <<last_processed_timestamp, last_poll_time, message_queue, pollerVars,
                   ev, current_time, context, enqLog, dropped, lastDecision>>

\* except Exception as e: print(...); the while loop goes on with the next
\* message_queue.get().
WorkerNext ==
    /\ wpc' = "get"
    /\ ev' = NoEvent
    /\ current_time' = 0
    /\ context' = NoContext
    /\ bot_response' = <<>>

\* Mutant: the context is stored after the reply is posted, so that a failing
\* create_post leaves user_context unchanged.
WorkerPostFail_late ==
    /\ wpc = "infer"
    /\ dropped' = dropped \cup {ev.id}
    /\ WorkerNext
    /\ UNCHANGED <<now, server, sharedVars, pollerVars, enqLog, replies, lastDecision, advances>>

\* Mutant: the try statement around the while loop, so that the first
\* exception ends the worker.
WorkerPostFail_stop ==
    /\ wpc = "infer"
    /\ \E r \in OllamaResults(RequestData(ev.message_text, context)) :
          user_context' = UpdateStore(user_context, ev.sender_username, r[2], current_time)
    /\ dropped' = dropped \cup {ev.id}
    /\ wpc' = "stopped"
    /\ UNCHANGED <<now, server, last_processed_timestamp, last_poll_time, message_queue,
                   pollerVars, ev, current_time, context, bot_response, enqLog, replies,
                   lastDecision, advances>>

\* get_ollama_response returns, the user's context is updated and
\* driver.posts.create_post raises.
WorkerPostFail ==
    /\ wpc = "infer"
    /\ \E r \in OllamaResults(RequestData(ev.message_text, context)) :
          user_context' = UpdateStore(user_context, ev.sender_username, r[2], current_time)
    /\ dropped' = dropped \cup {ev.id}
    /\ WorkerNext
    /\ UNCHANGED <<now, server, last_processed_timestamp, last_poll_time, message_queue,
                   pollerVars, enqLog, replies, lastDecision, advances>>

\* Mutant: the time of the dequeue stored in place of the post's create_at.
WorkerMark_now ==
    /\ wpc = "mark"
    /\ last_processed_timestamp' = DictSet(last_processed_timestamp, ev.channel_id, current_time)
    /\ WorkerNext
    /\ UNCHANGED <<now, server, last_poll_time, message_queue, user_context, pollerVars, histVars>>

\* Mutant: one timestamp for all channels.
WorkerMark_all ==
    /\ wpc = "mark"
    /\ last_processed_timestamp' = [c \in ChannelIds |-> ev.message_time]
    /\ WorkerNext
    /\ UNCHANGED <<now, server, last_poll_time, message_queue, user_context, pollerVars, histVars>>

\* last_processed_timestamp[channel_id] = message_time; message_queue.task_done()
WorkerMark ==
    /\ wpc = "mark"
    /\ last_processed_timestamp' = DictSet(last_processed_timestamp, ev.channel_id, ev.message_time)
    /\ WorkerNext
    /\ UNCHANGED <<now, server, last_poll_time, message_queue, user_context, pollerVars, histVars>>

Worker ==
    \/ WorkerGet
    \/ WorkerPost
    \/ WorkerPostFail
    \/ WorkerMark

Next ==
    \/ UserPost
    \/ PollStart
    \/ PollFetch
    \/ PollFetchFail
    \/ PollFilter
    \/ PollGetUser
    \/ PollGetUserFail
    \/ PollChannelDone
    \/ WorkerGet
    \/ WorkerPost
    \/ WorkerPostFail
    \/ WorkerMark

Spec == Init /\ [][Next]_vars

\* The worker thread keeps being scheduled: a queue.get() on a non-empty queue
\* returns, and every call the worker makes returns or raises.
FairSpec == Spec /\ WF_vars(Worker)

\* ------------------------------------------------------------------ claims
\* The post an entry of enqLog stands for.
Enqueued(k) == PostById(enqLog[k])

NoRepeats(s) == \A i, j \in 1..Len(s) : s[i] = s[j] => i = j

\* The context the request to the engine carries ("" when it carries none).
SentContext ==
    LET data == RequestData(ev.message_text, context)
    IN  IF "context" \in DOMAIN data THEN data.context ELSE NoContext

\* C1: no message is processed twice: every post is put on the queue at most
\* once, and at most one reply is posted for it.
C1_NoMessageProcessedTwice == NoRepeats(enqLog) /\ NoRepeats(replies)

\* C2: no post created before boot_time is ever put on the queue, and the boot
\* filter turns away only posts created before boot_time (a post created at
\* boot_time passes it).
C2_BootFilter ==
    /\ \A k \in 1..Len(enqLog) : Enqueued(k).create_at >= boot_time
    /\ lastDecision.verdict = "old" => lastDecision.post.create_at < boot_time

\* A post created exactly at boot_time has been put on the queue.
C2_Witness == \E k \in 1..Len(enqLog) : Enqueued(k).create_at = boot_time

\* C3: when the poller takes the decision of line 201 for a post whose
\* create_at is at most the channel's last_processed_timestamp entry as it is
\* at that moment, the post is skipped: it does not go on to get_user and put.
C3_DedupDecision ==
    (/\ lastDecision.verdict # "none"
     /\ lastDecision.seen # -1
     /\ lastDecision.post.create_at <= lastDecision.seen)
        => lastDecision.verdict \in {"bot", "old", "dup"}

\* A post whose create_at equals the entry has been skipped as already
\* processed while the worker is busy with a later event.
C3_Witness ==
    /\ lastDecision.verdict = "dup"
    /\ lastDecision.post.create_at = lastDecision.seen
    /\ wpc # "get"

\* C4: every post put on the queue from a channel that is not a direct-message
\* channel contains "@" followed by the bot's username, and the mention filter
\* turns away no post of a direct-message channel.
C4_MentionFilter ==
    /\ \A k \in 1..Len(enqLog) :
          ChannelType(Enqueued(k).channel_id) # "D"
              => \E i \in 1..(Len(Enqueued(k).message) - 1) :
                    Enqueued(k).message[i] = "@" /\ Enqueued(k).message[i + 1] = "b"
    /\ lastDecision.verdict = "nomention" => ChannelType(lastDecision.post.channel_id) # "D"

\* A post of the direct-message channel without the mention token has been
\* put on the queue.
C4_Witness ==
    \E k \in 1..Len(enqLog) :
        ChannelType(Enqueued(k).channel_id) = "D" /\ Enqueued(k).message = Plain

\* C5: posts of one channel are put on the queue in the order of their
\* create_at, also across poll cycles and whatever order the gateway lists
\* them in.
C5_EnqueueOrder ==
    \A i, j \in 1..Len(enqLog) :
        (i < j /\ Enqueued(i).channel_id = Enqueued(j).channel_id)
            => Enqueued(i).create_at <= Enqueued(j).create_at

\* C6: while the worker waits for the engine, the context its request carries
\* is empty if current_time is more than CONTEXT_EXPIRATION_DURATION after the
\* user's last_interaction_time, and is the stored context otherwise.
C6_ResolveExpiry ==
    wpc = "infer" =>
        LET entry == user_context[ev.sender_username]
        IN  SentContext =
                IF current_time - entry.last_interaction_time > CONTEXT_EXPIRATION_DURATION
                THEN NoContext
                ELSE entry.context

\* The stored context is sent when exactly CONTEXT_EXPIRATION_DURATION has
\* passed since the last interaction.
C6_Witness ==
    /\ wpc = "infer"
    /\ user_context[ev.sender_username].context # NoContext
    /\ current_time - user_context[ev.sender_username].last_interaction_time = CONTEXT_EXPIRATION_DURATION
    /\ SentContext = user_context[ev.sender_username].context

\* C7: resolving a user's context (the dequeue step) changes no entry
\* user_context already holds, expired or not.
C7_ResolveIdempotent ==
    [][(wpc = "get" /\ wpc' = "infer")
          => \A u \in DOMAIN user_context :
                u \in DOMAIN user_context' /\ user_context'[u] = user_context[u]]_vars

\* The worker has resolved an expired entry, and the entry still holds its
\* context and its last_interaction_time.
C7_Witness ==
    /\ wpc = "infer"
    /\ user_context[ev.sender_username].context # NoContext
    /\ current_time - user_context[ev.sender_username].last_interaction_time > CONTEXT_EXPIRATION_DURATION
    /\ context = NoContext

\* C8: once the processing of a post has raised, the post is not put on the
\* queue again and no reply is posted for it.
C8_AtMostOnce ==
    [][\A i \in dropped :
          /\ Count(enqLog', i) = Count(enqLog, i)
          /\ Count(replies', i) = Count(replies, i)]_vars

\* C9: a poll cycle ends only after its last channel: a failure in one channel
\* leaves no later channel of the cycle unfetched.
C9_FailureIsolated ==
    [][(ppc # "sleep" /\ ppc' = "sleep") => ci = Len(channels)]_vars

\* C10: whatever failed before, every post put on the queue is dequeued.
C10_WorkerSurvives ==
    \A n \in 1..MaxEnq :
        (Len(enqLog) >= n) ~> (Len(enqLog) - Len(message_queue) >= n)

\* The worker has dequeued an event after the processing of an earlier one raised.
C10_Witness == dropped # {} /\ wpc = "infer"

\* C11: last_processed_timestamp never decreases: completing an event of
\* channel c with create_at ts leaves max(previous entry, ts) in the entry of c.
C11_CursorMonotone ==
    [][\A c \in DOMAIN last_processed_timestamp :
          last_processed_timestamp'[c] >= last_processed_timestamp[c]]_vars

\* C12: last_processed_timestamp changes only in the step that follows a
\* posted reply, and then the entry of the event's channel becomes the event's
\* create_at; the dequeue step and a step in which the processing raises
\* leave it unchanged.
C12_MarkAfterPost ==
    [][/\ last_processed_timestamp' # last_processed_timestamp
            => /\ wpc = "mark"
               /\ replies # <<>>
               /\ replies[Len(replies)] = ev.id
               /\ last_processed_timestamp' =
                      [c \in DOMAIN last_processed_timestamp \cup {ev.channel_id} |->
                          IF c = ev.channel_id THEN ev.message_time
                          ELSE last_processed_timestamp[c]]
       /\ (wpc = "get" /\ wpc' = "infer") => last_processed_timestamp' = last_processed_timestamp
       /\ (wpc = "infer" /\ wpc' = "get") => last_processed_timestamp' = last_processed_timestamp]_vars

\* The processing of an event has raised, no reply was ever posted, and
\* last_processed_timestamp is still empty.
C12_Witness ==
    /\ dropped # {}
    /\ wpc = "get"
    /\ replies = <<>>
    /\ last_processed_timestamp = EmptyDict

\* C13: whenever the poller leaves a channel, by finishing its posts or by an
\* exception, last_poll_time of that channel holds the current time.
C13_PollCursorAlwaysSet ==
    [][(ppc \in {"channel", "post", "getuser"} /\ (ppc' = "sleep" \/ ci' # ci))
          => /\ channels[ci] \in DOMAIN last_poll_time'
             /\ last_poll_time'[channels[ci]] = now']_vars

\* C15: replies to posts of one channel are posted in the order of the posts'
\* create_at.
C15_ReplyOrder ==
    \A i, j \in 1..Len(replies) :
        (i < j /\ PostById(replies[i]).channel_id = PostById(replies[j]).channel_id)
            => PostById(replies[i]).create_at <= PostById(replies[j]).create_at

\* C14: when get_ollama_response returned one of its error texts, the worker
\* has posted that text to the event's channel as the reply, the user's stored
\* context is empty with the time of the dequeue, and the worker's next step
\* sets last_processed_timestamp of the channel to the event's create_at and
\* returns to the queue.
C14_InferenceErrorIsReply ==
    [][(wpc = "mark" /\ bot_response \in {ReplyStatusError, ReplyException} /\ wpc' # "mark")
          => /\ \E q \in server :
                   /\ q.user_id = bot_user_id
                   /\ q.channel_id = ev.channel_id
                   /\ q.message = bot_response
             /\ replies[Len(replies)] = ev.id
             /\ user_context[ev.sender_username] =
                   [context |-> NoContext, last_interaction_time |-> current_time]
             /\ ev.channel_id \in DOMAIN last_processed_timestamp'
             /\ last_processed_timestamp'[ev.channel_id] = ev.message_time
             /\ wpc' = "get"]_vars

\* An error text has been posted as the reply to an event that was sent to
\* the engine with a stored context.
C14_Witness ==
    /\ wpc = "mark"
    /\ bot_response = ReplyStatusError
    /\ context # NoContext
    /\ user_context[ev.sender_username].context = NoContext

\* C17: no post whose author is the bot is put on the queue or handed to the
\* worker, and the poller skips every post of the bot it looks at, in every
\* channel and whatever the text.
C17_NoSelfReply ==
    /\ \A k \in 1..Len(enqLog) : enqLog[k] # 0
    /\ \A i \in 1..Len(message_queue) : message_queue[i].sender_username # Username(bot_user_id)
    /\ wpc # "get" => ev.sender_username # Username(bot_user_id)
    /\ (lastDecision.verdict # "none" /\ lastDecision.post.user_id = bot_user_id)
          => lastDecision.verdict = "bot"

\* The poller has skipped a post of the bot that holds the mention token, in
\* a channel that is not a direct-message channel.
C17_Witness ==
    /\ lastDecision.verdict = "bot"
    /\ lastDecision.post.user_id = bot_user_id
    /\ ChannelType(lastDecision.post.channel_id) # "D"
    /\ lastDecision.post.message = ReplyOk
    /\ Contains(ReplyOk, <<"@", "b">>)

\* C18: when create_post raises, the user's entry of user_context already
\* holds the context get_ollama_response returned and the time taken at the
\* dequeue, and last_processed_timestamp is unchanged.
C18_ContextBeforePost ==
    [][(wpc = "infer" /\ wpc' = "get")
          => /\ user_context'[ev.sender_username].last_interaction_time = current_time
             /\ user_context'[ev.sender_username].context \in {NoContext, SentContext \o <<1>>}
             /\ last_processed_timestamp' = last_processed_timestamp]_vars

\* After a failed create_post a user has a stored context although no reply
\* was ever posted and last_processed_timestamp is empty.
C18_Witness ==
    /\ dropped # {}
    /\ replies = <<>>
    /\ last_processed_timestamp = EmptyDict
    /\ \E u \in DOMAIN user_context : user_context[u].context # NoContext

\* C19: a step of the worker for an event of user u in channel c changes no
\* entry of user_context but that of u, no entry of last_processed_timestamp
\* but that of c, and leaves last_poll_time unchanged; a step of the poller
\* leaves user_context and last_processed_timestamp unchanged.
C19_Frame ==
    [][/\ wpc' # wpc =>
            LET e == IF wpc = "get" THEN Head(message_queue) ELSE ev
            IN  /\ DOMAIN user_context' \subseteq DOMAIN user_context \cup {e.sender_username}
                /\ \A u \in DOMAIN user_context \ {e.sender_username} :
                      u \in DOMAIN user_context' /\ user_context'[u] = user_context[u]
                /\ DOMAIN last_processed_timestamp' \subseteq
                      DOMAIN last_processed_timestamp \cup {e.channel_id}
                /\ \A c \in DOMAIN last_processed_timestamp \ {e.channel_id} :
                      /\ c \in DOMAIN last_processed_timestamp'
                      /\ last_processed_timestamp'[c] = last_processed_timestamp[c]
                /\ last_poll_time' = last_poll_time
       /\ (ppc' # ppc \/ todo' # todo) =>
            /\ user_context' = user_context
            /\ last_processed_timestamp' = last_processed_timestamp]_vars

\* Events of two users in two channels have been completed: both dictionaries
\* hold two entries.
C19_Witness ==
    /\ Cardinality(DOMAIN user_context) = 2
    /\ Cardinality(DOMAIN last_processed_timestamp) = 2
    /\ DOMAIN last_poll_time = ChannelIds

\* C16: as long as the run's put allowance is not used up, the poller has a
\* step that is not an exception whatever the worker is doing and however
\* many events wait in the queue; the worker has no step only when it waits
\* at message_queue.get() on an empty queue.
C16_IngestionDecoupled ==
    /\ Len(enqLog) < MaxEnq
          => ENABLED (PollStart \/ PollFetch \/ PollFilter \/ PollGetUser \/ PollChannelDone)
    /\ ~(ENABLED Worker) => (wpc = "get" /\ message_queue = <<>>)

\* While the worker is busy with an event, the poller has put on the queue
\* a post that was written after the worker dequeued that event.
C16_Witness ==
    /\ wpc = "infer"
    /\ message_queue # <<>>
    /\ message_queue[Len(message_queue)].message_time > current_time
    /\ lastDecision.verdict = "enqueued"

\* C20: every entry of last_processed_timestamp is the create_at of a post of
\* that channel which was put on the queue and for which a reply was posted,
\* so it is at least boot_time; and no more replies have been posted than
\* events were dequeued.
C20_CursorProvenance ==
    /\ \A c \in DOMAIN last_processed_timestamp :
          /\ last_processed_timestamp[c] >= boot_time
          /\ \E k \in 1..Len(replies) :
                /\ \E j \in 1..Len(enqLog) : enqLog[j] = replies[k]
                /\ PostById(replies[k]).channel_id = c
                /\ PostById(replies[k]).create_at = last_processed_timestamp[c]
    /\ Len(replies) <= Len(enqLog) - Len(message_queue)

\* An entry of last_processed_timestamp is later than boot_time, and every
\* dequeued event has got its reply.
C20_Witness ==
    /\ \E c \in DOMAIN last_processed_timestamp : last_processed_timestamp[c] > boot_time
    /\ Len(replies) = Len(enqLog) - Len(message_queue)

====
